---------------------------- MODULE Spec2Model ----------------------------
(***************************************************************************)
(* A model of MindMapVisualizer (src/src/visualizer.py): the render call   *)
(* create_mindmap with its radial, branch and leaf layouts, the text       *)
(* wrapper _wrap_text and the curved connector _draw_curved_connection.    *)
(*                                                                         *)
(* Numbers.  Python floats are modelled in fixed point.  Page coordinates  *)
(* are integers in thousandths of a point, angles are integer degrees      *)
(* (exact for every count within the bounds: 360/N and 60/(k-1) are whole  *)
(* numbers of degrees there), cosines and sines are millionths.            *)
(* Strings are sequences of one-character strings.                         *)
(***************************************************************************)
EXTENDS Integers, Sequences, FiniteSets, TLC

VARIABLES
    hierarchy,    \* the dictionary passed to create_mindmap
    debug_mode,   \* self.debug_mode
    pc,           \* position of the render call
    canvases,     \* number of canvas.Canvas objects created by the call
    saves,        \* number of c.save() calls made
    gs,           \* the canvas's graphics state: fill, stroke, line width, font size
    ops,          \* the canvas's drawing calls, in order
    plain,        \* the canvas of the same call made with debug_mode = False
    i, j, k,      \* loop indices of the radial, branch and leaf loops (from 0)
    is_right_side,\* the side handed down from the current main topic
    err,          \* the exception that ended the call, "" when none
    wtext,        \* _wrap_text: the text argument
    wwidth,       \* _wrap_text: the max_width argument
    wlines,       \* _wrap_text: the returned list of lines
    wpc,          \* _wrap_text: "call" before the call, "returned" after
    cp1, cp2,     \* _draw_curved_connection: the end points (x1, y1), (x2, y2)
    cctrl,        \* _draw_curved_connection: the control point of the drawn curve
    cprev,        \* the control point of the curve drawn before the end points were swapped
    cpc           \* _draw_curved_connection: "call", "returned", "swapped" or "raised"

renderVars == <<hierarchy, debug_mode, pc, canvases, saves, gs, ops, plain,
                i, j, k, is_right_side, err>>
wrapVars == <<wtext, wwidth, wlines, wpc>>
curveVars == <<cp1, cp2, cctrl, cprev, cpc>>
vars == <<renderVars, wrapVars, curveVars>>

----------------------------------------------------------------------------
(* Bounds of the model.                                                    *)

MaxMain == 4
MaxSub == 3
MaxLeaf == 2
MaxTextLen == 9
MaxWidth == 3
MaxCoord == 2

----------------------------------------------------------------------------
(* Arithmetic helpers.                                                     *)

Abs(n) == IF n < 0 THEN -n ELSE n

\* Division rounded to the nearest integer, half away from zero: like float
\* division it is symmetric under a change of sign.  b > 0.
RDiv(a, b) == IF a >= 0 THEN (2 * a + b) \div (2 * b)
                        ELSE -((2 * (-a) + b) \div (2 * b))

\* Python's "/": raises ZeroDivisionError on a zero divisor.
Div(a, b) == IF b = 0 THEN [ok |-> FALSE, val |-> 0]
                      ELSE [ok |-> TRUE, val |-> RDiv(a, b)]

RECURSIVE SqrtBetween(_, _, _)
\* The largest r in lo..hi with r * r <= n, by bisection.
SqrtBetween(n, lo, hi) ==
    IF lo >= hi THEN lo
    ELSE LET mid == (lo + hi + 1) \div 2
         IN  IF mid * mid <= n THEN SqrtBetween(n, mid, hi)
                               ELSE SqrtBetween(n, lo, mid - 1)

\* math.sqrt of a non-negative integer below 2^31, rounded down.
ISqrt(n) == SqrtBetween(n, 0, 46340)

----------------------------------------------------------------------------
(* Strings: str.split, ' '.join, len.                                      *)

RECURSIVE SplitFrom(_, _, _, _)
SplitFrom(s, n, cur, acc) ==
    IF n > Len(s)
    THEN IF cur = <<>> THEN acc ELSE Append(acc, cur)
    ELSE IF s[n] = " "
         THEN SplitFrom(s, n + 1, <<>>, IF cur = <<>> THEN acc ELSE Append(acc, cur))
         ELSE SplitFrom(s, n + 1, Append(cur, s[n]), acc)

\* text.split(): the maximal runs of non-whitespace characters, in order.
Split(s) == SplitFrom(s, 1, <<>>, <<>>)

RECURSIVE Join(_)
\* ' '.join(words)
Join(words) ==
    IF words = <<>> THEN <<>>
    ELSE IF Len(words) = 1 THEN words[1]
    ELSE words[1] \o <<" ">> \o Join(Tail(words))

Ellipsis == <<".", ".", ".">>

----------------------------------------------------------------------------
(* _wrap_text                                                              *)

RECURSIVE GreedyLinesDropWord(_, _, _, _, _)
\* GreedyLines with the line started on an overflow left empty: the word
\* that did not fit is lost.
GreedyLinesDropWord(words, n, lines, current_line, max_width) ==
    IF n > Len(words)
    THEN IF current_line # <<>> THEN Append(lines, Join(current_line)) ELSE lines
    ELSE IF current_line # <<>>
            /\ Len(Join(Append(current_line, words[n]))) > max_width
         THEN GreedyLinesDropWord(words, n + 1, Append(lines, Join(current_line)),
                                  <<>>, max_width)
         ELSE GreedyLinesDropWord(words, n + 1, lines,
                                  Append(current_line, words[n]), max_width)

RECURSIVE GreedyLines(_, _, _, _, _)
\* The loop of _wrap_text over words[n..], with the lines and the current
\* line built so far; the final flush of current_line included.
GreedyLines(words, n, lines, current_line, max_width) ==
    IF n > Len(words)
    THEN IF current_line # <<>> THEN Append(lines, Join(current_line)) ELSE lines
    ELSE IF current_line # <<>>
            /\ Len(Join(Append(current_line, words[n]))) > max_width
         THEN GreedyLines(words, n + 1, Append(lines, Join(current_line)),
                          <<words[n]>>, max_width)
         ELSE GreedyLines(words, n + 1, lines, Append(current_line, words[n]),
                          max_width)

Greedy(text, max_width) == GreedyLines(Split(text), 1, <<>>, <<>>, max_width)

\* LimitLines keeping four lines before the "...".
LimitLinesKeepFour(lines) ==
    IF Len(lines) > 4 THEN Append(SubSeq(lines, 1, 4), Ellipsis) ELSE lines

\* The cap on the number of lines: more than 4 become the first 3 and "...".
LimitLines(lines) ==
    IF Len(lines) > 4 THEN Append(SubSeq(lines, 1, 3), Ellipsis) ELSE lines

WrapText(text, max_width) == LimitLines(Greedy(text, max_width))

----------------------------------------------------------------------------
(* Trigonometry and the page.                                              *)

Milli == 10^3

\* math.cos at 0..90 degrees, in millionths.
CosTable == <<
    1000000, 999848, 999391, 998630, 997564, 996195, 994522, 992546, 990268,
    987688, 984808, 981627, 978148, 974370, 970296, 965926, 961262, 956305,
    951057, 945519, 939693, 933580, 927184, 920505, 913545, 906308, 898794,
    891007, 882948, 874620, 866025, 857167, 848048, 838671, 829038, 819152,
    809017, 798636, 788011, 777146, 766044, 754710, 743145, 731354, 719340,
    707107, 694658, 681998, 669131, 656059, 642788, 629320, 615661, 601815,
    587785, 573576, 559193, 544639, 529919, 515038, 500000, 484810, 469472,
    453990, 438371, 422618, 406737, 390731, 374607, 358368, 342020, 325568,
    309017, 292372, 275637, 258819, 241922, 224951, 207912, 190809, 173648,
    156434, 139173, 121869, 104528, 87156, 69756, 52336, 34899, 17452, 0 >>

\* math.cos of an angle in degrees, in millionths.
Cos(deg) ==
    LET d == deg % 360
    IN  IF d <= 90 THEN CosTable[d + 1]
        ELSE IF d <= 180 THEN -CosTable[180 - d + 1]
        ELSE IF d <= 270 THEN -CosTable[d - 180 + 1]
        ELSE CosTable[360 - d + 1]

\* math.sin of an angle in degrees, in millionths.
Sin(deg) == Cos(deg - 90)

\* landscape(A2) = (594 mm, 420 mm) in points, here in thousandths.
PageWidth == 1683780
PageHeight == 1190551

center_x == RDiv(PageWidth, 2)
center_y == RDiv(PageHeight, 2)

\* x0 + r * math.cos(angle) and y0 + r * math.sin(angle): r in points, the
\* rest in thousandths of a point.
PolarX(x0, r, angle) == x0 + RDiv(r * Cos(angle), Milli)
PolarY(y0, r, angle) == y0 + RDiv(r * Sin(angle), Milli)

----------------------------------------------------------------------------
(* Colours and node styles (MindMapVisualizer.__init__).                   *)

ShadowColor == "Color(0,0,0,alpha=0.1)"

central_node == [width |-> 300, height |-> 100, fill_color |-> "#4A86E8",
                 border_color |-> "#2A66C8", text_color |-> "white",
                 font_size |-> 18]
main_node == [width |-> 250, height |-> 80, fill_color |-> "#93C47D",
              border_color |-> "#73A45D", text_color |-> "black",
              font_size |-> 14]
sub_node == [width |-> 220, height |-> 70, fill_color |-> "#FFD966",
             border_color |-> "#DFB946", text_color |-> "black",
             font_size |-> 12]
leaf_node == [width |-> 200, height |-> 60, fill_color |-> "#F9CB9C",
              border_color |-> "#D9AB7C", text_color |-> "black",
              font_size |-> 10]

\* The style selection at the head of _draw_node.
NodeStyle(node_type) ==
    IF node_type = "central" THEN central_node
    ELSE IF node_type = "main" THEN main_node
    ELSE IF node_type = "sub" THEN sub_node
    ELSE leaf_node

\* MaxChars taking a character to be as wide as the font is high.
MaxCharsFullWidth(style) == style.width \div style.font_size

\* int(width / (font_size * 0.6)): the per-line character budget.
MaxChars(style) == (style.width * 10) \div (style.font_size * 6)

----------------------------------------------------------------------------
(* The canvas: a graphics state and the list of drawing calls made.  Line  *)
(* widths are in tenths of a point.                                        *)

InitGS == [fill |-> "black", stroke |-> "black", line_width |-> 10, font_size |-> 12]

SetFillColor(c, color) == [c EXCEPT !.gs.fill = color]
SetStrokeColor(c, color) == [c EXCEPT !.gs.stroke = color]
SetLineWidth(c, w) == [c EXCEPT !.gs.line_width = w]
SetFont(c, size) == [c EXCEPT !.gs.font_size = size]
Emit(c, call) == [c EXCEPT !.ops = Append(@, call)]

RECURSIVE DrawLines(_, _, _, _, _)
\* The loop of drawCentredString calls ending _draw_node.
DrawLines(c, lines, x, text_y, line_height) ==
    IF lines = <<>> THEN c
    ELSE DrawLines(Emit(c, [op |-> "drawCentredString", x |-> x, y |-> text_y,
                            text |-> Head(lines), gs |-> c.gs]),
                   Tail(lines), x, text_y - line_height, line_height)

\* DrawNode with the shadow filled in whatever colour the canvas holds.
DrawNodeShadowInheritsFill(c, text, x, y, node_type) ==
    LET style == NodeStyle(node_type)
        width == style.width * Milli
        height == style.height * Milli
        c2 == Emit(c, [op |-> "roundRect", x |-> x - width \div 2 + 3 * Milli,
                       y |-> y - height \div 2 - 3 * Milli, w |-> width,
                       h |-> height, stroke |-> 0, fill |-> 1, gs |-> c.gs])
        c3 == SetLineWidth(SetStrokeColor(SetFillColor(c2, style.fill_color),
                                          style.border_color), 20)
        c4 == Emit(c3, [op |-> "roundRect", x |-> x - width \div 2,
                        y |-> y - height \div 2, w |-> width, h |-> height,
                        stroke |-> 1, fill |-> 1, gs |-> c3.gs])
        wrapped_text == WrapText(text, MaxChars(style))
        c5 == SetFont(SetFillColor(c4, style.text_color), style.font_size)
        line_height == style.font_size * 1200
        total_text_height == Len(wrapped_text) * line_height
        text_y == y + total_text_height \div 2 - line_height
    IN  DrawLines(c5, wrapped_text, x, text_y, line_height)

\* _draw_node: the shadow box, the styled box, the wrapped text.
DrawNode(c, text, x, y, node_type) ==
    LET style == NodeStyle(node_type)
        width == style.width * Milli
        height == style.height * Milli
        c1 == SetFillColor(c, ShadowColor)
        c2 == Emit(c1, [op |-> "roundRect", x |-> x - width \div 2 + 3 * Milli,
                        y |-> y - height \div 2 - 3 * Milli, w |-> width,
                        h |-> height, stroke |-> 0, fill |-> 1, gs |-> c1.gs])
        c3 == SetLineWidth(SetStrokeColor(SetFillColor(c2, style.fill_color),
                                          style.border_color), 20)
        c4 == Emit(c3, [op |-> "roundRect", x |-> x - width \div 2,
                        y |-> y - height \div 2, w |-> width, h |-> height,
                        stroke |-> 1, fill |-> 1, gs |-> c3.gs])
        wrapped_text == WrapText(text, MaxChars(style))
        c5 == SetFont(SetFillColor(c4, style.text_color), style.font_size)
        line_height == style.font_size * 1200
        total_text_height == Len(wrapped_text) * line_height
        text_y == y + total_text_height \div 2 - line_height
    IN  DrawLines(c5, wrapped_text, x, text_y, line_height)

\* _draw_connection: a straight line.
DrawConnection(c, x1, y1, x2, y2, color) ==
    LET c1 == SetLineWidth(SetStrokeColor(c, color), 20)
    IN  Emit(c1, [op |-> "line", x1 |-> x1, y1 |-> y1, x2 |-> x2, y2 |-> y2,
                  gs |-> c1.gs])

\* _draw_curved_connection as the canvas sees it: one Bezier path from
\* (x1, y1) to (x2, y2); its control point is ControlPoint of the end points.
DrawCurvedConnection(c, x1, y1, x2, y2, color) ==
    LET c1 == SetLineWidth(SetStrokeColor(c, color), 25)
    IN  Emit(c1, [op |-> "curve", x1 |-> x1, y1 |-> y1, x2 |-> x2, y2 |-> y2,
                  gs |-> c1.gs])

----------------------------------------------------------------------------
(* Layout geometry.                                                        *)

radius == 300
branch_length == 230
leaf_distance == 180
v_spacing == 80

\* angle_step = 2 * math.pi / num_topics, in degrees.
RadialAngleStep(num_topics) == Div(360, num_topics)

\* TopicAngle counting the topics from 1.
TopicAngleFromOne(num_topics, idx) ==
    270 + (idx + 1) * RadialAngleStep(num_topics).val

\* angle = (3 * math.pi / 2) + (i * angle_step)
TopicAngle(num_topics, idx) == 270 + idx * RadialAngleStep(num_topics).val

\* The float rounding of center_x + radius * math.cos(angle) where the exact
\* cosine is zero.  At 3*pi/2 the float cosine is -1.8e-16 and the sum
\* rounds back to center_x; at 5*pi/2 it is 3.1e-16 and the sum is the next
\* float above center_x.  The model keeps the sign of that difference, as one
\* unit of its own resolution, because line 138 compares topic_x with center_x.
CosRounding(angle) == IF angle = 450 THEN 1 ELSE 0

TopicX(angle) == PolarX(center_x, radius, angle) + CosRounding(angle)
TopicY(angle) == PolarY(center_y, radius, angle)

\* IsRightSide with a topic at center_x counted as on the right.
IsRightSideOrCentre(topic_x) == topic_x >= center_x

\* is_right_side = topic_x > center_x
IsRightSide(topic_x) == topic_x > center_x

\* base_angle: 0 (horizontal right) or math.pi (horizontal left).
BaseAngle(right) == IF right THEN 0 ELSE 180

\* angle_range = math.pi / 3 on both sides.
AngleRange(right) == 60

\* BranchAngleStep without its test for a single subtopic.
BranchAngleStepUnguarded(right, num_subtopics) ==
    Div(AngleRange(right), num_subtopics - 1)

\* angle_step of _draw_branch_layout: angle_range / (num_subtopics - 1) when
\* there is more than one subtopic, else 0.
BranchAngleStep(right, num_subtopics) ==
    IF num_subtopics > 1 THEN Div(AngleRange(right), num_subtopics - 1)
    ELSE [ok |-> TRUE, val |-> 0]

\* StartAngle with the fan starting on the axis instead of half the range
\* before it.
StartAngleOnAxis(right) == BaseAngle(right)

\* start_angle = base_angle - (angle_range / 2)
StartAngle(right) == BaseAngle(right) - AngleRange(right) \div 2

\* subtopic_angle = start_angle + (i * angle_step)
SubtopicAngle(right, num_subtopics, idx) ==
    StartAngle(right) + idx * BranchAngleStep(right, num_subtopics).val

SubtopicX(parent_x, angle) == PolarX(parent_x, branch_length, angle)
SubtopicY(parent_y, angle) == PolarY(parent_y, branch_length, angle)

\* LeafX with every stack of leaves to the right of its parent.
LeafXAlwaysRight(parent_x, right) == parent_x + leaf_distance * Milli

\* leaf_x = parent_x + (h_direction * leaf_distance)
LeafX(parent_x, right) ==
    parent_x + (IF right THEN 1 ELSE -1) * leaf_distance * Milli

\* leaf_y = start_y - (i * v_spacing), start_y = parent_y + total_height / 2
LeafY(parent_y, num_leaves, idx) ==
    LET total_height == (num_leaves - 1) * v_spacing * Milli
    IN  parent_y + total_height \div 2 - idx * v_spacing * Milli

----------------------------------------------------------------------------
(* Dictionaries and the topic trees given to the render call.              *)

\* dict.get(key, default)
Get(d, key, default) == IF key \in DOMAIN d THEN d[key] ELSE default

\* The truth value of a list.
Truthy(list) == list # <<>>

DefaultCentral == <<"M", "i", "n", "d", " ", "M", "a", "p">>

\* A label of two 16-letter words: 33 characters, more than the budgets of
\* the central, main and sub nodes and exactly the budget of a leaf.
LongLabel == [n \in 1..16 |-> "x"] \o <<" ">> \o [n \in 1..16 |-> "y"]

\* Labels of two words with 28, 30, 31 and 34 characters in all: one more
\* than the budget of a central node, of a main node, of a sub node and of
\* a leaf.
TwoWords(len) ==
    [n \in 1..((len - 1) \div 2) |-> "x"] \o <<" ">>
        \o [n \in 1..(len - 1 - (len - 1) \div 2) |-> "y"]
FitLength == [fit28 |-> 28, fit30 |-> 30, fit31 |-> 31, fit34 |-> 34]

Variants == {"lists", "nokeys", "deep", "long", "notext_main_first",
             "notext_main_last", "notext_sub_first", "notext_sub_last",
             "notext_leaf_first", "notext_leaf_last"}

\* Child counts of the trees: stride 0 gives every parent the same count,
\* stride 1 a count that changes from one parent to the next.
Count(base, stride, pos, max) == (base + stride * pos) % (max + 1)

Label(variant, short) ==
    IF variant = "long" THEN LongLabel
    ELSE IF variant \in DOMAIN FitLength THEN TwoWords(FitLength[variant])
    ELSE short

\* A node: 'text' unless it is the node the variant leaves without one;
\* 'subtopics' unless the list is empty and the variant omits empty lists.
Node(variant, short, has_text, children) ==
    LET t == IF has_text THEN [text |-> Label(variant, short)] ELSE <<>>
        s == IF children = <<>> /\ variant = "nokeys" THEN <<>>
             ELSE [subtopics |-> children]
    IN  t @@ s

Faulty(variant, level, idx, count) ==
    \/ variant = "notext_" \o level \o "_first" /\ idx = 1
    \/ variant = "notext_" \o level \o "_last" /\ idx = count

LeafTopics(variant, count) ==
    [c \in 1..count |->
        Node(variant, <<"l">>, ~Faulty(variant, "leaf", c, count),
             IF variant = "deep" THEN <<[text |-> <<"d">>]>> ELSE <<>>)]

SubTopics(variant, count, m, stride, a) ==
    [b \in 1..count |->
        Node(variant, <<"s">>, ~Faulty(variant, "sub", b, count),
             LeafTopics(variant, Count(m, stride, a + b, MaxLeaf)))]

MainTopics(variant, count, n, m, stride) ==
    [a \in 1..count |->
        Node(variant, <<"m">>, ~Faulty(variant, "main", a, count),
             SubTopics(variant, Count(n, stride, a - 1, MaxSub), m, stride, a))]

Tree(variant, count, n, m, stride) ==
    LET mains == MainTopics(variant, count, n, m, stride)
        top == IF variant = "nokeys" THEN <<>>
               ELSE [central_topic |-> Label(variant, <<"c">>)]
        rest == IF mains = <<>> /\ variant = "nokeys" THEN <<>>
                ELSE [main_topics |-> mains]
    IN  top @@ rest

\* The trees of every shape, and full trees of every probing label.
ShapeTrees == { Tree(v, count, n, m, stride) :
                  v \in Variants, count \in 0..MaxMain, n \in 0..MaxSub,
                  m \in 0..MaxLeaf, stride \in 0..1 }
FitTrees == { Tree(v, count, count, count, 0) :
                v \in DOMAIN FitLength, count \in 1..MaxLeaf }
Trees == ShapeTrees \cup FitTrees

----------------------------------------------------------------------------
(* The render call: create_mindmap.                                        *)

Canvas == [gs |-> gs, ops |-> ops]

main_topics == Get(hierarchy, "main_topics", <<>>)

\* The topics whose loops are running.
topic == main_topics[i + 1]
subtopics == Get(topic, "subtopics", <<>>)
subtopic == subtopics[j + 1]
leaf_nodes == Get(subtopic, "subtopics", <<>>)
leaf == leaf_nodes[k + 1]

\* Their positions.
topic_angle == TopicAngle(Len(main_topics), i)
topic_x == TopicX(topic_angle)
topic_y == TopicY(topic_angle)
subtopic_angle == SubtopicAngle(is_right_side, Len(subtopics), j)
subtopic_x == SubtopicX(topic_x, subtopic_angle)
subtopic_y == SubtopicY(topic_y, subtopic_angle)
leaf_x == LeafX(subtopic_x, is_right_side)
leaf_y == LeafY(subtopic_y, Len(leaf_nodes), k)

IdleWrap == wtext = <<>> /\ wwidth = 0 /\ wlines = <<>> /\ wpc = "idle"
IdleCurve ==
    /\ cp1 = <<0, 0>> /\ cp2 = <<0, 0>>
    /\ cctrl = <<0, 0>> /\ cprev = <<0, 0>>
    /\ cpc = "idle"

InitRender ==
    /\ hierarchy \in Trees
    /\ debug_mode \in BOOLEAN
    /\ pc = "start"
    /\ canvases = 0
    /\ saves = 0
    /\ gs = InitGS
    /\ ops = <<>>
    /\ plain = [gs |-> InitGS, ops |-> <<>>]
    /\ i = 0 /\ j = 0 /\ k = 0
    /\ is_right_side = FALSE
    /\ err = ""

Init == InitRender /\ IdleWrap /\ IdleCurve

\* Lines 70-72: the page border, drawn in debug mode only.
DebugBorder(c, debug) ==
    LET c1 == SetStrokeColor(c, "red")
    IN  IF debug
        THEN Emit(c1, [op |-> "rect", x |-> 10 * Milli, y |-> 10 * Milli,
                       w |-> PageWidth - 20 * Milli,
                       h |-> PageHeight - 20 * Milli, gs |-> c1.gs])
        ELSE c

\* Lines 90-93: the count of main topics, written in debug mode only.
DebugCount(c, debug) ==
    LET c1 == SetFillColor(SetFont(c, 12), "black")
    IN  IF debug
        THEN Emit(c1, [op |-> "drawString", x |-> 50 * Milli,
                       y |-> PageHeight - 50 * Milli,
                       text |-> <<"Number of main topics", Len(main_topics)>>,
                       gs |-> c1.gs])
        ELSE c

\* Lines 121-125, 183-187 and 229-231: the anchor circle of a topic and,
\* when it has one, its index label, drawn in debug mode only.
DebugPoint(c, debug, color, x, y, r, label) ==
    LET d1 == SetFillColor(c, color)
        d2 == Emit(d1, [op |-> "circle", x |-> x, y |-> y, r |-> r * Milli,
                        gs |-> d1.gs])
        d3 == SetFillColor(d2, "black")
        d4 == Emit(d3, [op |-> "drawString", x |-> x, y |-> y, text |-> label,
                        gs |-> d3.gs])
    IN  IF ~debug THEN c ELSE IF label = <<>> THEN d2 ELSE d4

\* Lines 78-80: the canvas after the central topic is drawn.
CentralDrawn(c) ==
    DrawNode(c, Get(hierarchy, "central_topic", DefaultCentral),
             center_x, center_y, "central")

\* MainTopicDrawn with the node drawn before its connector.
MainTopicDrawnNodeFirst(c, debug) ==
    LET c1 == DebugPoint(c, debug, "red", topic_x, topic_y, 5, <<"Topic", i>>)
    IN  IF "text" \notin DOMAIN topic
        THEN DrawCurvedConnection(c1, center_x, center_y, topic_x, topic_y,
                                  "#4A86E8")
        ELSE DrawCurvedConnection(
                 DrawNode(c1, topic.text, topic_x, topic_y, "main"),
                 center_x, center_y, topic_x, topic_y, "#4A86E8")

\* Lines 121-132: the canvas after main topic i is drawn.  topic['text']
\* is read after the connector is drawn, so a topic without the key leaves
\* its connector on the canvas and no node.
MainTopicDrawn(c, debug) ==
    LET c1 == DebugPoint(c, debug, "red", topic_x, topic_y, 5, <<"Topic", i>>)
        c2 == DrawCurvedConnection(c1, center_x, center_y, topic_x, topic_y,
                                   "#4A86E8")
    IN  IF "text" \notin DOMAIN topic
        THEN c2
        ELSE DrawNode(c2, topic.text, topic_x, topic_y, "main")

\* Lines 183-194: the canvas after subtopic j of main topic i is drawn.
SubtopicDrawn(c, debug) ==
    LET c1 == DebugPoint(c, debug, "blue", subtopic_x, subtopic_y, 3,
                         <<"Sub", j>>)
        c2 == DrawCurvedConnection(c1, topic_x, topic_y, subtopic_x,
                                   subtopic_y, "#93C47D")
    IN  IF "text" \notin DOMAIN subtopic
        THEN c2
        ELSE DrawNode(c2, subtopic.text, subtopic_x, subtopic_y, "sub")

\* LeafDrawn with the curved connector of the other levels.
LeafDrawnCurved(c, debug) ==
    LET c1 == DebugPoint(c, debug, "green", leaf_x, leaf_y, 2, <<>>)
        c2 == DrawCurvedConnection(c1, subtopic_x, subtopic_y, leaf_x, leaf_y,
                                   "#FFD966")
    IN  IF "text" \notin DOMAIN leaf
        THEN c2
        ELSE DrawNode(c2, leaf.text, leaf_x, leaf_y, "leaf")

\* Lines 229-238: the canvas after leaf k of that subtopic is drawn.
LeafDrawn(c, debug) ==
    LET c1 == DebugPoint(c, debug, "green", leaf_x, leaf_y, 2, <<>>)
        c2 == DrawConnection(c1, subtopic_x, subtopic_y, leaf_x, leaf_y,
                             "#FFD966")
    IN  IF "text" \notin DOMAIN leaf
        THEN c2
        ELSE DrawNode(c2, leaf.text, leaf_x, leaf_y, "leaf")

\* Lines 66-72: the canvas is created; the page border in debug mode.
CreateCanvas ==
    /\ pc = "start"
    /\ canvases' = canvases + 1
    /\ LET c == DebugBorder(Canvas, debug_mode)
       IN  gs' = c.gs /\ ops' = c.ops
    /\ plain' = DebugBorder(plain, FALSE)
    /\ pc' = "central"
    /\ UNCHANGED <<hierarchy, debug_mode, saves, i, j, k, is_right_side, err>>
    /\ UNCHANGED <<wrapVars, curveVars>>

\* Lines 78-80: the central topic.
DrawCentral ==
    /\ pc = "central"
    /\ LET c == CentralDrawn(Canvas)
       IN  gs' = c.gs /\ ops' = c.ops
    /\ plain' = CentralDrawn(plain)
    /\ pc' = "topics"
    /\ UNCHANGED <<hierarchy, debug_mode, canvases, saves, i, j, k,
                   is_right_side, err>>
    /\ UNCHANGED <<wrapVars, curveVars>>

\* Lines 85-87: no main topics, the canvas is saved and the call returns.
SaveEmpty ==
    /\ pc = "topics"
    /\ ~Truthy(main_topics)
    /\ saves' = saves + 1
    /\ pc' = "done"
    /\ UNCHANGED <<hierarchy, debug_mode, canvases, gs, ops, plain, i, j, k,
                   is_right_side, err>>
    /\ UNCHANGED <<wrapVars, curveVars>>

\* Lines 90-107: the debug count, then _draw_radial_layout up to its loop:
\* it returns at once for no topics and divides by their number otherwise.
EnterRadial ==
    /\ pc = "topics"
    /\ Truthy(main_topics)
    /\ LET c == DebugCount(Canvas, debug_mode)
       IN  gs' = c.gs /\ ops' = c.ops
    /\ plain' = DebugCount(plain, FALSE)
    /\ IF Len(main_topics) = 0
       THEN pc' = "main" /\ i' = 0 /\ err' = err
       ELSE IF RadialAngleStep(Len(main_topics)).ok
            THEN pc' = "main" /\ i' = 0 /\ err' = err
            ELSE pc' = "raised" /\ i' = i /\ err' = "ZeroDivisionError"
    /\ UNCHANGED <<hierarchy, debug_mode, canvases, saves, j, k, is_right_side>>
    /\ UNCHANGED <<wrapVars, curveVars>>

\* Where the call stands once the topic at (i, j, k) and its children are drawn.
AfterMain == pc' = "main" /\ i' = i + 1 /\ j' = j /\ k' = k
AfterSub ==
    IF j + 1 < Len(subtopics)
    THEN pc' = "sub" /\ i' = i /\ j' = j + 1 /\ k' = k
    ELSE AfterMain
\* AfterLeaf leaving the loop after the first leaf.
AfterLeafOnce == AfterSub

AfterLeaf ==
    IF k + 1 < Len(leaf_nodes)
    THEN pc' = "leaf" /\ i' = i /\ j' = j /\ k' = k + 1
    ELSE AfterSub

\* Lines 113-142: one round of the loop over the main topics, and the head
\* of _draw_branch_layout (lines 147-172) when the topic has subtopics.
DrawMainTopic ==
    /\ pc = "main"
    /\ i < Len(main_topics)
    /\ LET c == MainTopicDrawn(Canvas, debug_mode)
       IN  gs' = c.gs /\ ops' = c.ops
    /\ plain' = MainTopicDrawn(plain, FALSE)
    /\ IF "text" \notin DOMAIN topic
       THEN /\ pc' = "raised" /\ err' = "KeyError"
            /\ UNCHANGED <<i, j, k, is_right_side>>
       ELSE IF Truthy(subtopics)
            THEN /\ is_right_side' = IsRightSide(topic_x)
                 /\ IF BranchAngleStep(IsRightSide(topic_x), Len(subtopics)).ok
                    THEN pc' = "sub" /\ j' = 0 /\ err' = err
                    ELSE pc' = "raised" /\ j' = j /\ err' = "ZeroDivisionError"
                 /\ UNCHANGED <<i, k>>
            ELSE AfterMain /\ UNCHANGED <<is_right_side, err>>
    /\ UNCHANGED <<hierarchy, debug_mode, canvases, saves>>
    /\ UNCHANGED <<wrapVars, curveVars>>

\* Lines 175-200: one round of the loop over the subtopics of a main topic.
DrawSubtopic ==
    /\ pc = "sub"
    /\ LET c == SubtopicDrawn(Canvas, debug_mode)
       IN  gs' = c.gs /\ ops' = c.ops
    /\ plain' = SubtopicDrawn(plain, FALSE)
    /\ IF "text" \notin DOMAIN subtopic
       THEN /\ pc' = "raised" /\ err' = "KeyError"
            /\ UNCHANGED <<i, j, k>>
       ELSE /\ err' = err
            /\ IF Truthy(leaf_nodes)
               THEN pc' = "leaf" /\ k' = 0 /\ UNCHANGED <<i, j>>
               ELSE AfterSub
    /\ UNCHANGED <<hierarchy, debug_mode, canvases, saves, is_right_side>>
    /\ UNCHANGED <<wrapVars, curveVars>>

\* Lines 225-238: one round of the loop over the leaves of a subtopic.
DrawLeaf ==
    /\ pc = "leaf"
    /\ LET c == LeafDrawn(Canvas, debug_mode)
       IN  gs' = c.gs /\ ops' = c.ops
    /\ plain' = LeafDrawn(plain, FALSE)
    /\ IF "text" \notin DOMAIN leaf
       THEN /\ pc' = "raised" /\ err' = "KeyError"
            /\ UNCHANGED <<i, j, k>>
       ELSE /\ err' = err
            /\ AfterLeaf
    /\ UNCHANGED <<hierarchy, debug_mode, canvases, saves, is_right_side>>
    /\ UNCHANGED <<wrapVars, curveVars>>

\* Line 98: the loop over the main topics is over, the canvas is saved.
Save ==
    /\ pc = "main"
    /\ i >= Len(main_topics)
    /\ saves' = saves + 1
    /\ pc' = "done"
    /\ UNCHANGED <<hierarchy, debug_mode, canvases, gs, ops, plain, i, j, k,
                   is_right_side, err>>
    /\ UNCHANGED <<wrapVars, curveVars>>

Next ==
    \/ CreateCanvas
    \/ DrawCentral
    \/ SaveEmpty
    \/ EnterRadial
    \/ DrawMainTopic
    \/ DrawSubtopic
    \/ DrawLeaf
    \/ Save

Spec == Init /\ [][Next]_vars

----------------------------------------------------------------------------
(* _wrap_text called on its own.                                           *)

Alphabet == {"a", "b", " "}
Texts == UNION { [1..n -> Alphabet] : n \in 0..MaxTextLen }

IdleRender ==
    /\ hierarchy = <<>>
    /\ debug_mode = FALSE
    /\ pc = "idle"
    /\ canvases = 0
    /\ saves = 0
    /\ gs = InitGS
    /\ ops = <<>>
    /\ plain = [gs |-> InitGS, ops |-> <<>>]
    /\ i = 0 /\ j = 0 /\ k = 0
    /\ is_right_side = FALSE
    /\ err = ""

InitWrap ==
    /\ IdleRender /\ IdleCurve
    /\ wtext \in Texts
    /\ wwidth \in 0..MaxWidth
    /\ wlines = <<>>
    /\ wpc = "call"

CallWrapText ==
    /\ wpc = "call"
    /\ wlines' = WrapText(wtext, wwidth)
    /\ wpc' = "returned"
    /\ UNCHANGED <<wtext, wwidth, renderVars, curveVars>>

NextWrap == CallWrapText

SpecWrap == InitWrap /\ [][NextWrap]_vars

----------------------------------------------------------------------------
(* _draw_curved_connection called on its own.  End points are whole        *)
(* numbers, lengths and control points are hundredths, unit vectors are    *)
(* ten-thousandths.                                                        *)

Centi == 10^2
UnitScale == 10^4

CoordStep == 40
Coords == { c * CoordStep : c \in (-MaxCoord)..MaxCoord }
Points == Coords \X Coords

\* math.sqrt((x2 - x1)**2 + (y2 - y1)**2)
Distance(x1, y1, x2, y2) ==
    ISqrt(((x2 - x1) * (x2 - x1) + (y2 - y1) * (y2 - y1)) * Centi * Centi)

\* Perpendicular without the change of sign of the rotation.
PerpendicularUnsigned(dx, dy, length) ==
    IF length > 0
    THEN LET udx == Div(dx * Centi * UnitScale, length)
             udy == Div(dy * Centi * UnitScale, length)
         IN  [ok |-> udx.ok /\ udy.ok, perpx |-> udy.val, perpy |-> udx.val]
    ELSE [ok |-> TRUE, perpx |-> 0, perpy |-> 0]

\* Lines 300-312: the perpendicular of the unit vector from point 1 to
\* point 2, or zero when the points coincide.
Perpendicular(dx, dy, length) ==
    IF length > 0
    THEN LET udx == Div(dx * Centi * UnitScale, length)
             udy == Div(dy * Centi * UnitScale, length)
         IN  [ok |-> udx.ok /\ udy.ok, perpx |-> -udy.val, perpy |-> udx.val]
    ELSE [ok |-> TRUE, perpx |-> 0, perpy |-> 0]

\* Lines 292-319: the control point (cx1, cy1), or the division that failed.
ControlPoint(x1, y1, x2, y2) ==
    LET mid_x == RDiv((x1 + x2) * Centi, 2)
        mid_y == RDiv((y1 + y2) * Centi, 2)
        distance == Distance(x1, y1, x2, y2)
        perp == Perpendicular(x2 - x1, y2 - y1, distance)
        ctrl_distance == RDiv(distance * 2, 10)
    IN  [ok |-> perp.ok,
         cx1 |-> mid_x + RDiv(perp.perpx * ctrl_distance, UnitScale),
         cy1 |-> mid_y + RDiv(perp.perpy * ctrl_distance, UnitScale)]

InitCurve ==
    /\ IdleRender /\ IdleWrap
    /\ cp1 \in Points
    /\ cp2 \in Points
    /\ cctrl = <<0, 0>>
    /\ cprev = <<0, 0>>
    /\ cpc = "call"

\* The curve from cp1 to cp2 is drawn.
CallCurvedConnection ==
    /\ cpc = "call"
    /\ LET r == ControlPoint(cp1[1], cp1[2], cp2[1], cp2[2])
       IN  IF r.ok
           THEN cctrl' = <<r.cx1, r.cy1>> /\ cpc' = "returned"
           ELSE cctrl' = cctrl /\ cpc' = "raised"
    /\ UNCHANGED <<cp1, cp2, cprev, renderVars, wrapVars>>

\* The same curve is drawn again with its end points swapped.
RedrawSwapped ==
    /\ cpc = "returned"
    /\ cp1' = cp2
    /\ cp2' = cp1
    /\ cprev' = cctrl
    /\ LET r == ControlPoint(cp2[1], cp2[2], cp1[1], cp1[2])
       IN  IF r.ok
           THEN cctrl' = <<r.cx1, r.cy1>> /\ cpc' = "swapped"
           ELSE cctrl' = cctrl /\ cpc' = "raised"
    /\ UNCHANGED <<renderVars, wrapVars>>

NextCurve == CallCurvedConnection \/ RedrawSwapped

SpecCurve == InitCurve /\ [][NextCurve]_vars

\* Renders and curves: every computation of the module that divides.
SpecDivisions ==
    /\ (Init \/ InitCurve)
    /\ [][Next \/ NextCurve]_vars

----------------------------------------------------------------------------
(* What a render drew, read back from the canvas's drawing calls.          *)

Exited == pc \in {"done", "raised"}

\* The styled box of a node (its shadow is the roundRect without a stroke).
IsBox(o) == o.op = "roundRect" /\ o.stroke = 1
IsLevelBox(o, level) == IsBox(o) /\ o.w = NodeStyle(level).width * Milli
IsConnector(o) == o.op \in {"curve", "line"}

\* The position a node was drawn at: the centre of its box.
CentreX(o) == o.x + o.w \div 2
CentreY(o) == o.y + o.h \div 2

BoxesOf(level) == SelectSeq(ops, LAMBDA o : IsLevelBox(o, level))
NonCentralBoxes == SelectSeq(ops, LAMBDA o : IsBox(o) /\ ~IsLevelBox(o, "central"))
Connectors == SelectSeq(ops, IsConnector)

\* The index in ops of the last box of a level drawn before the call at n.
HasBoxBefore(n, level) == \E m \in 1..(n - 1) : IsLevelBox(ops[m], level)
LastBoxBefore(n, level) ==
    CHOOSE m \in 1..(n - 1) :
        /\ IsLevelBox(ops[m], level)
        /\ \A q \in (m + 1)..(n - 1) : ~IsLevelBox(ops[q], level)

\* How many boxes of a level were drawn up to and including the call at n.
BoxCountUpTo(n, level) ==
    Cardinality({m \in 1..n : IsLevelBox(ops[m], level)})

ParentLevel(level) ==
    IF level = "main" THEN "central" ELSE IF level = "sub" THEN "main" ELSE "sub"

RECURSIVE Children(_)
\* The child lists of a list of topics, concatenated; a missing 'subtopics'
\* counts as an empty list.
Children(list) ==
    IF list = <<>> THEN <<>>
    ELSE Get(Head(list), "subtopics", <<>>) \o Children(Tail(list))

Level1 == main_topics
Level2 == Children(Level1)
Level3 == Children(Level2)
Level4 == Children(Level3)

AllHaveText ==
    \A list \in {Level1, Level2, Level3} :
        \A n \in DOMAIN list : "text" \in DOMAIN list[n]

----------------------------------------------------------------------------
(* C1.  Every exit of create_mindmap, the normal return, the early return  *)
(* for no main topics and an exit by an exception raised while drawing,    *)
(* leaves the canvas created once and saved exactly once.                  *)
(* The code saves on its two returns only: an exception raised in a draw   *)
(* leaves the canvas unsaved.                                              *)
C1_SavedOnceOnEveryExit == Exited => (canvases = 1 /\ saves = 1)

----------------------------------------------------------------------------
\* The call two before the box at n is the connector of that node.
ConnectorOf(n, level) ==
    /\ n > 2
    /\ IsConnector(ops[n - 2])
    /\ ops[n - 2].x2 = CentreX(ops[n]) /\ ops[n - 2].y2 = CentreY(ops[n])
    /\ HasBoxBefore(n, ParentLevel(level))
    /\ LET parent == ops[LastBoxBefore(n, ParentLevel(level))]
       IN  ops[n - 2].x1 = CentreX(parent) /\ ops[n - 2].y1 = CentreY(parent)

(* C2.  For a tree whose nodes all have a 'text', a missing 'subtopics'    *)
(* counting as no children, the finished render has drawn the central node *)
(* once, one node per topic at depths 1, 2 and 3 and none for deeper       *)
(* topics, and one connector per non-central node, from the position of    *)
(* its parent to its own, drawn right before the node.                     *)
C2_OneNodeAndConnectorPerTopic ==
    AllHaveText =>
        /\ pc # "raised"
        /\ pc = "done" =>
            /\ Len(BoxesOf("central")) = 1
            /\ Len(BoxesOf("main")) = Len(Level1)
            /\ Len(BoxesOf("sub")) = Len(Level2)
            /\ Len(BoxesOf("leaf")) = Len(Level3)
            /\ Len(SelectSeq(ops, IsBox)) = 1 + Len(Level1) + Len(Level2) + Len(Level3)
            /\ Len(Connectors) = Len(NonCentralBoxes)
            /\ \A n \in DOMAIN ops : \A level \in {"main", "sub", "leaf"} :
                  IsLevelBox(ops[n], level) => ConnectorOf(n, level)
            /\ Len(Level1) = 0 => Len(SelectSeq(ops, IsBox)) = 1 /\ Connectors = <<>>

\* The render of three main topics of two subtopics each: 9 non-central
\* nodes and 9 connectors.
C2_Witness ==
    /\ pc = "done"
    /\ Len(Level1) = 3 /\ Len(Level2) = 6 /\ Len(Level3) = 0
    /\ \A n \in 1..3 : Len(Get(Level1[n], "subtopics", <<>>)) = 2
    /\ Len(NonCentralBoxes) = 9
    /\ Len(Connectors) = 9

----------------------------------------------------------------------------
(* The main topic that owns the node drawn at n, and the side it is on.    *)

OwnerBox(n) == ops[LastBoxBefore(n, "main")]
OwnerTopic(n) == Level1[BoxCountUpTo(n, "main")]
OwnerOnRight(n) == CentreX(OwnerBox(n)) > center_x

----------------------------------------------------------------------------
(* C3.  The only subtopic of a main topic is drawn on the horizontal axis  *)
(* of its parent: at (parent_x + 230, parent_y) for a parent on the right, *)
(* at (parent_x - 230, parent_y) for a parent on the left.                 *)
(* The code draws it at the start angle of the fan, 30 degrees off the     *)
(* axis.                                                                   *)
C3_SingleSubtopicOnAxis ==
    \A n \in DOMAIN ops :
        (/\ IsLevelBox(ops[n], "sub")
         /\ Len(Get(OwnerTopic(n), "subtopics", <<>>)) = 1)
        => /\ CentreY(ops[n]) = CentreY(OwnerBox(n))
           /\ CentreX(ops[n]) = CentreX(OwnerBox(n))
                + (IF OwnerOnRight(n) THEN 230 ELSE -230) * Milli

----------------------------------------------------------------------------
\* The turn from the main topic a to the next about the centre: negative
\* when clockwise on a y-up page.  In whole points.
TurnAfter(a) ==
    LET mains == BoxesOf("main")
        ax == (CentreX(mains[a]) - center_x) \div Milli
        ay == (CentreY(mains[a]) - center_y) \div Milli
        bx == (CentreX(mains[a + 1]) - center_x) \div Milli
        by == (CentreY(mains[a + 1]) - center_y) \div Milli
    IN  ax * by - ay * bx

(* C4.  On the page, whose y axis points up, the first main topic is drawn *)
(* straight above the central node, and the main topics that follow go     *)
(* round the centre clockwise.                                             *)
(* The code draws the first main topic straight below the centre and goes  *)
(* round anticlockwise.                                                    *)
C4_FirstAtTwelveThenClockwise ==
    LET mains == BoxesOf("main")
    IN  /\ mains # <<>> =>
            /\ CentreX(mains[1]) = center_x
            /\ CentreY(mains[1]) > center_y
        /\ Len(Level1) >= 3 =>
            \A a \in 1..(Len(mains) - 1) : TurnAfter(a) < 0

----------------------------------------------------------------------------
(* C5.  With N main topics, main topic i (from 0) is drawn 300 points from *)
(* the centre of the page at the angle 3*pi/2 + i * (2*pi/N): all at the   *)
(* same distance from the centre, 2*pi/N apart; a single main topic is at  *)
(* 3*pi/2.  Positions agree to the resolution of the model and distances   *)
(* to a tenth of a point.                                                  *)
C5_MainTopicsOnCircle ==
    LET mains == BoxesOf("main")
        N == Len(Level1)
    IN  \A a \in DOMAIN mains :
            LET angle == 270 + (a - 1) * (360 \div N)
                dx == CentreX(mains[a]) - center_x
                dy == CentreY(mains[a]) - center_y
                tx == RDiv(dx, 100)
                ty == RDiv(dy, 100)
                d2 == tx * tx + ty * ty
            IN  /\ Abs(dx - RDiv(300 * Cos(angle), Milli)) <= 1
                /\ Abs(dy - RDiv(300 * Sin(angle), Milli)) <= 1
                /\ Abs(d2 - 3000 * 3000) <= 2 * 3000
                /\ N = 1 => dx = 0 /\ dy = -300 * Milli

\* A finished render of three main topics, 120 degrees apart.
C5_Witness ==
    /\ pc = "done"
    /\ Len(Level1) = 3
    /\ Len(BoxesOf("main")) = 3

----------------------------------------------------------------------------
(* C6.  A main topic is on the right exactly when its x coordinate is      *)
(* strictly greater than center_x, whatever the tree: its subtopics are    *)
(* drawn to its right, and their leaves to theirs, exactly then; a main    *)
(* topic drawn at center_x is always on the left.                          *)
C6_SideFromXAlone ==
    /\ pc \in {"sub", "leaf"} =>
          is_right_side = (CentreX(BoxesOf("main")[Len(BoxesOf("main"))]) > center_x)
    /\ \A n \in DOMAIN ops :
          /\ IsLevelBox(ops[n], "sub") =>
                (CentreX(ops[n]) > CentreX(OwnerBox(n))) = OwnerOnRight(n)
          /\ IsLevelBox(ops[n], "leaf") =>
                (CentreX(ops[n]) > CentreX(ops[LastBoxBefore(n, "sub")]))
                    = OwnerOnRight(n)

\* A subtopic drawn to the left of a main topic that is at center_x.
C6_Witness ==
    \E n \in DOMAIN ops :
        /\ IsLevelBox(ops[n], "sub")
        /\ CentreX(OwnerBox(n)) = center_x
        /\ CentreX(ops[n]) < center_x

----------------------------------------------------------------------------
(* The words of a list of lines, in reading order.                         *)

RECURSIVE WordsOf(_)
WordsOf(lines) ==
    IF lines = <<>> THEN <<>> ELSE Split(Head(lines)) \o WordsOf(Tail(lines))

IsPrefix(s, t) == Len(s) <= Len(t) /\ SubSeq(t, 1, Len(s)) = s

----------------------------------------------------------------------------
(* C7.  For every label and every max width _wrap_text returns at most 4   *)
(* lines; when the greedy packing of the label makes more than 4 lines,    *)
(* it returns the first 3 of them followed by the line "...".              *)
C7_AtMostFourLines ==
    wpc = "returned" =>
        /\ Len(wlines) <= 4
        /\ LET greedy == Greedy(wtext, wwidth)
           IN  IF Len(greedy) > 4
               THEN wlines = SubSeq(greedy, 1, 3) \o <<Ellipsis>>
               ELSE wlines = greedy

\* A label of five words, one to a line, cut to three lines and "...".
C7_Witness ==
    /\ wpc = "returned"
    /\ Len(Split(wtext)) = 5
    /\ Len(Greedy(wtext, wwidth)) = 5
    /\ Len(wlines) = 4
    /\ wlines[4] = Ellipsis

----------------------------------------------------------------------------
(* C8.  The lines _wrap_text returns hold the words of the label in their  *)
(* order, none lost and none repeated; or, when the label was cut, three   *)
(* lines whose words are the first words of the label, and "..." as the    *)
(* fourth.                                                                 *)
C8_WordsKeptInOrder ==
    wpc = "returned" =>
        \/ WordsOf(wlines) = Split(wtext)
        \/ /\ Len(wlines) = 4
           /\ wlines[4] = Ellipsis
           /\ WordsOf(SubSeq(wlines, 1, 3)) # Split(wtext)
           /\ IsPrefix(WordsOf(SubSeq(wlines, 1, 3)), Split(wtext))
           /\ \A n \in 1..3 : wlines[n] # <<>>

\* Four words on three lines, nothing cut.
C8_Witness ==
    /\ wpc = "returned"
    /\ Len(Split(wtext)) = 4
    /\ Len(wlines) = 3
    /\ WordsOf(wlines) = Split(wtext)
    /\ \E n \in 1..3 : Len(Split(wlines[n])) = 2

----------------------------------------------------------------------------
(* C9.  No render and no curved connector divides by zero: the angular     *)
(* step 2*pi/N is computed for N >= 1 only, the step of a fan for more     *)
(* than one subtopic only, and a curve whose end points coincide gets a    *)
(* zero perpendicular, so that its control point is the midpoint.          *)
C9_NoDivisionByZero ==
    /\ err # "ZeroDivisionError"
    /\ cpc # "raised"
    /\ (cpc \in {"returned", "swapped"} /\ cp1 = cp2) =>
          cctrl = <<cp1[1] * Centi, cp1[2] * Centi>>

\* A curve drawn between two coincident points away from the origin.
C9_Witness ==
    /\ cpc = "returned"
    /\ cp1 = cp2
    /\ cp1 # <<0, 0>>
    /\ cctrl = <<cp1[1] * Centi, cp1[2] * Centi>>

----------------------------------------------------------------------------
(* C10.  The control point of the curve from p1 to p2 is the midpoint      *)
(* moved by 0.2 * (-(y2 - y1), x2 - x1); with p1 and p2 swapped it is the  *)
(* midpoint moved by the opposite vector: the mirror image across the      *)
(* line through p1 and p2, as far from it.  To a hundredth of a unit.      *)
C10_ControlPoint ==
    LET dx == cp2[1] - cp1[1]
        dy == cp2[2] - cp1[2]
        twice_mid_x == (cp1[1] + cp2[1]) * Centi
        twice_mid_y == (cp1[2] + cp2[2]) * Centi
    IN  /\ cpc \in {"returned", "swapped"} =>
            /\ Abs(2 * cctrl[1] - (twice_mid_x - 2 * 20 * dy)) <= 2
            /\ Abs(2 * cctrl[2] - (twice_mid_y + 2 * 20 * dx)) <= 2
        /\ cpc = "swapped" =>
            /\ cctrl[1] + cprev[1] = twice_mid_x
            /\ cctrl[2] + cprev[2] = twice_mid_y
            /\ Abs(2 * cprev[1] - (twice_mid_x + 2 * 20 * dy)) <= 2
            /\ Abs(2 * cprev[2] - (twice_mid_y - 2 * 20 * dx)) <= 2

\* A slanted curve redrawn with its end points swapped.
C10_Witness ==
    /\ cpc = "swapped"
    /\ cp1[1] # cp2[1] /\ cp1[2] # cp2[2]
    /\ cctrl # cprev

----------------------------------------------------------------------------
(* Node and connector draws as they come out on the page.                  *)

\* The marker draws of debug mode: page border, anchor circles, labels.
IsMarker(o) == o.op \in {"rect", "circle", "drawString"}

\* A node or connector draw with the attributes that reach the page: its
\* geometry, its text, and the part of the graphics state the call uses
\* (a box fills, and strokes when stroke = 1; a text line fills in the
\* current font; a connector strokes).
Effective(o) ==
    IF o.op = "roundRect"
    THEN [op |-> o.op, at |-> <<o.x, o.y, o.w, o.h>>, text |-> <<>>,
          fill |-> o.gs.fill,
          stroke |-> IF o.stroke = 1 THEN o.gs.stroke ELSE "",
          line_width |-> IF o.stroke = 1 THEN o.gs.line_width ELSE 0,
          font_size |-> 0]
    ELSE IF o.op = "drawCentredString"
    THEN [op |-> o.op, at |-> <<o.x, o.y>>, text |-> o.text,
          fill |-> o.gs.fill, stroke |-> "", line_width |-> 0,
          font_size |-> o.gs.font_size]
    ELSE [op |-> o.op, at |-> <<o.x1, o.y1, o.x2, o.y2>>, text |-> <<>>,
          fill |-> "", stroke |-> o.gs.stroke,
          line_width |-> o.gs.line_width, font_size |-> 0]

\* The node and connector draws of a sequence of drawing calls, in order.
Drawing(calls) ==
    LET kept == SelectSeq(calls, LAMBDA o : ~IsMarker(o))
    IN  [n \in 1..Len(kept) |-> Effective(kept[n])]

Markers(calls) == SelectSeq(calls, IsMarker)

\* C11: debug mode is purely additive.  At every point of a render the node
\* and connector draws made so far with debug_mode = True (positions, level,
\* colours, line widths, wrapped text, curve or line) are, in order, the draws
\* made by the same call with debug_mode = False; the calls debug mode adds
\* are markers only, and a call without debug mode draws no marker.
C11_DebugOnlyAddsMarkers ==
    /\ Drawing(ops) = Drawing(plain.ops)
    /\ Markers(plain.ops) = <<>>
    /\ Len(ops) = Len(plain.ops) + Len(Markers(ops))
    /\ ~debug_mode => Canvas = plain

\* A debug render of a full tree has finished with the border, the count,
\* circles and labels among its calls.
C11_Witness ==
    /\ debug_mode
    /\ pc = "done"
    /\ Level3 # <<>>
    /\ \A kind \in {"rect", "circle", "drawString"} :
           \E n \in 1..Len(ops) : ops[n].op = kind
    /\ Len(plain.ops) > 0
    /\ Len(ops) > Len(plain.ops)

----------------------------------------------------------------------------
(* The text a node holds per line.                                         *)

Levels == <<"central", "main", "sub", "leaf">>
LevelOf(o) == CHOOSE level \in {"central", "main", "sub", "leaf"} :
                  IsLevelBox(o, level)
Depth(level) == CHOOSE d \in 1..4 : Levels[d] = level

\* The text lines drawn for the node whose box is call n: the
\* drawCentredString calls that follow the box.
RECURSIVE TextLinesFrom(_)
TextLinesFrom(n) ==
    IF n > Len(ops) \/ ops[n].op # "drawCentredString" THEN <<>>
    ELSE <<ops[n].text>> \o TextLinesFrom(n + 1)
TextLines(n) == TextLinesFrom(n + 1)

\* The label of that node, read back from its lines, and whether the whole
\* label went on one line.
LabelOf(n) == Join(TextLines(n))
HasWords(n) == Len(Split(LabelOf(n))) > 1
OnOneLine(n) == Len(TextLines(n)) = 1

Boxes == { n \in 1..Len(ops) : IsBox(ops[n]) }

\* C12 as stated: the budget grows towards the centre, central > main > sub
\* > leaf, so that a label a node holds on one line is held on one line by
\* every node of a shallower level too.
C12_ShallowerHoldsMore ==
    \A n \in Boxes, m \in Boxes :
        (/\ Depth(LevelOf(ops[n])) < Depth(LevelOf(ops[m]))
         /\ LabelOf(n) = LabelOf(m)
         /\ OnOneLine(m))
        => OnOneLine(n)

\* The budgets as the amended claim gives them.
BudgetRead == [central |-> 27, main |-> 29, sub |-> 30, leaf |-> 33]

\* C12 amended: the budget is 27 characters for the central node, 29 for a
\* main node, 30 for a sub node and 33 for a leaf; it grows with the depth.
\* In the drawing a render leaves, a label of several words is on one line
\* exactly when its length is within the budget of its node's level.
C12_DeeperHoldsMore ==
    Exited => \A n \in Boxes :
        HasWords(n) =>
            (OnOneLine(n) <=> Len(LabelOf(n)) <= BudgetRead[LevelOf(ops[n])])

\* A finished render in which one label is on two lines in a sub node and on
\* one line in a leaf.
C12_Witness ==
    /\ pc = "done"
    /\ \E n \in Boxes, m \in Boxes :
           /\ LevelOf(ops[n]) = "sub" /\ LevelOf(ops[m]) = "leaf"
           /\ HasWords(n)
           /\ LabelOf(n) = LabelOf(m)
           /\ Len(TextLines(n)) = 2
           /\ OnOneLine(m)

----------------------------------------------------------------------------
(* Connectors.                                                             *)

ChildLevel(level) ==
    IF level = "central" THEN "main" ELSE IF level = "main" THEN "sub" ELSE "leaf"

\* The connector at call n leaves a node of the given level: it starts at
\* the centre of the last box of that level, in that box's fill colour, and
\* the node drawn after it, when one is, is of the next level and centred
\* on its end point.
LeavesLevel(n, level) ==
    /\ HasBoxBefore(n, level)
    /\ LET parent == ops[LastBoxBefore(n, level)]
       IN  /\ ops[n].x1 = CentreX(parent) /\ ops[n].y1 = CentreY(parent)
           /\ ops[n].gs.stroke = parent.gs.fill
    /\ n + 2 <= Len(ops) =>
           /\ IsLevelBox(ops[n + 2], ChildLevel(level))
           /\ ops[n].x2 = CentreX(ops[n + 2])
           /\ ops[n].y2 = CentreY(ops[n + 2])

ConnectorsFrom(level) ==
    { n \in DOMAIN ops : IsConnector(ops[n]) /\ LeavesLevel(n, level) }

\* C13: in the drawing a render leaves, when it returns or raises, every
\* connector runs from its parent's centre to its child's centre,
\* has its parent's colour and its child's shape: curved and #4A86E8 from
\* the central node to a main node, curved and #93C47D from a main node to a
\* sub node, straight and #FFD966 from a sub node to a leaf.  A connector
\* with no node after it is the last call of a render that raised.
C13_ColourOfParentShapeOfChild ==
    Exited => \A n \in DOMAIN ops :
        IsConnector(ops[n]) =>
            /\ \/ /\ LeavesLevel(n, "central")
                  /\ ops[n].op = "curve" /\ ops[n].gs.stroke = "#4A86E8"
               \/ /\ LeavesLevel(n, "main")
                  /\ ops[n].op = "curve" /\ ops[n].gs.stroke = "#93C47D"
               \/ /\ LeavesLevel(n, "sub")
                  /\ ops[n].op = "line" /\ ops[n].gs.stroke = "#FFD966"
            /\ n + 2 > Len(ops) => (n = Len(ops) /\ pc = "raised")

\* A finished render with connectors of the three kinds, each before a node.
C13_Witness ==
    /\ pc = "done"
    /\ \A level \in {"central", "main", "sub"} :
           \E n \in ConnectorsFrom(level) : n + 2 <= Len(ops)
    /\ Len(BoxesOf("leaf")) > 1

----------------------------------------------------------------------------
(* The fan of subtopics.                                                   *)

SubBoxes == { n \in DOMAIN ops : IsLevelBox(ops[n], "sub") }

\* The number of subtopics of the main topic that owns the sub node at n,
\* and the place of that sub node among them, from 0.
SiblingCount(n) == Len(Get(OwnerTopic(n), "subtopics", <<>>))
SiblingIndex(n) ==
    LET owner == LastBoxBefore(n, "main")
    IN  Cardinality({m \in (owner + 1)..(n - 1) : IsLevelBox(ops[m], "sub")})

\* The offset of the sub node at n from its main node.
FanDx(n) == CentreX(ops[n]) - CentreX(OwnerBox(n))
FanDy(n) == CentreY(ops[n]) - CentreY(OwnerBox(n))

\* C14: in the drawing a render leaves, when it returns or raises, with
\* k > 1 subtopics subtopic i is 230 points from its parent at the
\* angle base - 30 + i * (60 / (k - 1)) degrees, base being 0 for a parent on
\* the right and 180 for one on the left.  The first subtopic is at base - 30
\* and the last at base + 30; subtopics i and k - 1 - i mirror each other in
\* the parent's horizontal axis; and the axis points away from the centre of
\* the page: the point 230 along it is further from center_x than the parent.
\* Positions agree to the resolution of the model and distances to a tenth of
\* a point.
C14_SubtopicFan ==
    Exited => \A n \in SubBoxes :
        SiblingCount(n) > 1 =>
            LET kk == SiblingCount(n)
                idx == SiblingIndex(n)
                base == IF OwnerOnRight(n) THEN 0 ELSE 180
                angle == base - 30 + idx * (60 \div (kk - 1))
                tx == RDiv(FanDx(n), 100)
                ty == RDiv(FanDy(n), 100)
                px == CentreX(OwnerBox(n)) - center_x
                axis == IF OwnerOnRight(n) THEN 230 * Milli ELSE -230 * Milli
            IN  /\ idx < kk
                /\ Abs(FanDx(n) - RDiv(230 * Cos(angle), Milli)) <= 1
                /\ Abs(FanDy(n) - RDiv(230 * Sin(angle), Milli)) <= 1
                /\ Abs(tx * tx + ty * ty - 2300 * 2300) <= 2 * 2300
                /\ idx = 0 => angle = base - 30
                /\ idx = kk - 1 => angle = base + 30
                /\ \A m \in (LastBoxBefore(n, "main") + 1)..(n - 1) :
                       (/\ IsLevelBox(ops[m], "sub")
                        /\ SiblingIndex(m) = kk - 1 - idx)
                       => FanDx(m) = FanDx(n) /\ FanDy(m) = -FanDy(n)
                /\ Abs(px + axis) > Abs(px)

\* A finished render with a fan of three subtopics on the right of the page
\* and one on the left.
C14_Witness ==
    /\ pc = "done"
    /\ \E n \in SubBoxes, m \in SubBoxes :
           /\ SiblingCount(n) = 3 /\ SiblingIndex(n) = 2 /\ OwnerOnRight(n)
           /\ SiblingCount(m) = 3 /\ SiblingIndex(m) = 2 /\ ~OwnerOnRight(m)

----------------------------------------------------------------------------
(* The stack of leaves.                                                    *)

LeafBoxes == { n \in DOMAIN ops : IsLevelBox(ops[n], "leaf") }

\* The sub node that the leaf at n hangs from, the subtopic it was drawn
\* for, the number of that subtopic's leaves and the place of the leaf at n
\* among them, from 0.
ParentSub(n) == LastBoxBefore(n, "sub")
ParentSubtopic(n) ==
    Get(OwnerTopic(n), "subtopics", <<>>)[SiblingIndex(ParentSub(n)) + 1]
LeafCount(n) == Len(Get(ParentSubtopic(n), "subtopics", <<>>))
LeafIndex(n) ==
    LET first == ParentSub(n) + 1
    IN  Cardinality({m \in first..(n - 1) : IsLevelBox(ops[m], "leaf")})

\* C15: in the drawing a render leaves, the m leaves of a subtopic are all
\* at x = parent_x + 180 when the main topic they belong to is on the right
\* and at x = parent_x - 180 when it is on the left, and leaf i is at
\* y = parent_y + (m - 1) * 40 - i * 80: a leaf is 80 below the one before
\* it (the calls between a leaf and its sub node draw that sub node's leaves), and leaves i and m - 1 - i are at the same distance above and below
\* the parent.
C15_LeafStack ==
    Exited => \A n \in LeafBoxes :
        LET mm == LeafCount(n)
            idx == LeafIndex(n)
            parent == ops[ParentSub(n)]
            side == IF OwnerOnRight(n) THEN 1 ELSE -1
        IN  /\ idx < mm
            /\ CentreX(ops[n]) = CentreX(parent) + side * 180 * Milli
            /\ CentreY(ops[n]) =
                   CentreY(parent) + (mm - 1) * 40 * Milli - idx * 80 * Milli
            /\ \A q \in (ParentSub(n) + 1)..(n - 1) :
                   IsLevelBox(ops[q], "leaf") =>
                       /\ LeafIndex(q) = idx - 1 =>
                              CentreY(ops[q]) = CentreY(ops[n]) + 80 * Milli
                       /\ LeafIndex(q) = mm - 1 - idx =>
                              CentreY(ops[q]) - CentreY(parent)
                                  = CentreY(parent) - CentreY(ops[n])

\* A finished render with a stack of two leaves on each side of the page.
C15_Witness ==
    /\ pc = "done"
    /\ \E n \in LeafBoxes, q \in LeafBoxes :
           /\ LeafCount(n) = 2 /\ LeafIndex(n) = 1 /\ OwnerOnRight(n)
           /\ LeafCount(q) = 2 /\ LeafIndex(q) = 1 /\ ~OwnerOnRight(q)

----------------------------------------------------------------------------
(* The order of the drawing calls.                                         *)

RECURSIVE Flatten(_)
Flatten(lists) ==
    IF lists = <<>> THEN <<>> ELSE Head(lists) \o Flatten(Tail(lists))

\* The topics of the hierarchy down to the leaves in pre-order, each with
\* its level and its label (empty for a topic without a 'text').
Visit(level, node) == [level |-> level, text |-> Get(node, "text", <<>>)]
SubOrder(sub) ==
    LET leaves == Get(sub, "subtopics", <<>>)
    IN  <<Visit("sub", sub)>> \o [c \in DOMAIN leaves |-> Visit("leaf", leaves[c])]
MainOrder(main) ==
    LET subs == Get(main, "subtopics", <<>>)
    IN  <<Visit("main", main)>> \o Flatten([b \in DOMAIN subs |-> SubOrder(subs[b])])
PreOrder ==
    <<[level |-> "central",
       text |-> Get(hierarchy, "central_topic", DefaultCentral)]>>
        \o Flatten([a \in DOMAIN main_topics |-> MainOrder(main_topics[a])])

\* The nodes on the canvas in the order of their boxes.
BoxCalls == SelectSeq([n \in DOMAIN ops |-> n], LAMBDA n : IsBox(ops[n]))
DrawnNodes ==
    [b \in DOMAIN BoxCalls |->
        [level |-> LevelOf(ops[BoxCalls[b]]), text |-> LabelOf(BoxCalls[b])]]

\* The calls that draw nodes and connectors, without the markers of debug mode.
DrawCalls == SelectSeq(ops, LAMBDA o : ~IsMarker(o))

\* The node whose box is call n is drawn as one run of calls: its connector
\* (but for the central node) from the node of its parent, already drawn;
\* the shadow box, 3 points right and below; the styled box; its text
\* lines, each one line height of 1.2 font sizes below the one before.
NodeRun(n) ==
    LET level == LevelOf(ops[n])
        lines == TextLines(n)
    IN  /\ n > 1
        /\ ops[n - 1].op = "roundRect" /\ ops[n - 1].stroke = 0
        /\ ops[n - 1].x = ops[n].x + 3 * Milli
        /\ ops[n - 1].y = ops[n].y - 3 * Milli
        /\ ops[n - 1].w = ops[n].w /\ ops[n - 1].h = ops[n].h
        /\ level # "central" => ConnectorOf(n, level)
        /\ lines # <<>>
        /\ \A q \in 1..Len(lines) :
               /\ ops[n + q].x = CentreX(ops[n])
               /\ q > 1 => ops[n + q].y =
                               ops[n + q - 1].y - ops[n + q].gs.font_size * 1200
        /\ ops[n + 1].y > ops[n + Len(lines)].y \/ Len(lines) = 1

\* C16: the node and connector draws of a render follow the tree in
\* pre-order.  The central node is drawn first; the nodes drawn when the
\* render ends are the first topics of the pre-order of the hierarchy and,
\* when it has returned, all of them down to the leaves, so a node's subtree is drawn
\* before its next sibling; in the drawing the render leaves, each node is
\* drawn as connector, shadow box, styled box, text lines from the top down,
\* the connector starting from the node of its parent drawn before; and no
\* other node or connector call is made, but the connector of a topic whose
\* 'text' is missing.
C16_PreOrder ==
    /\ DrawCalls # <<>> =>
           /\ DrawCalls[1].op = "roundRect" /\ DrawCalls[1].stroke = 0
           /\ DrawCalls[1].w = NodeStyle("central").width * Milli
    /\ Exited => IsPrefix(DrawnNodes, PreOrder)
    /\ pc = "done" => DrawnNodes = PreOrder
    /\ Exited => \A n \in Boxes : NodeRun(n)
    /\ Exited => \A n \in DOMAIN ops :
           /\ (ops[n].op = "roundRect" /\ ops[n].stroke = 0) =>
                  (n < Len(ops) /\ IsBox(ops[n + 1]))
           /\ ops[n].op = "drawCentredString" =>
                  (IsBox(ops[n - 1]) \/ ops[n - 1].op = "drawCentredString")
           /\ IsConnector(ops[n]) =>
                  \/ n + 2 <= Len(ops) /\ IsBox(ops[n + 2])
                  \/ n = Len(ops) /\ pc = "raised"

\* A finished render of a tree with leaves and two-line labels: a leaf was
\* drawn between two sub nodes of one main topic and a main node after a leaf.
C16_Witness ==
    /\ pc = "done"
    /\ \E b \in 1..(Len(DrawnNodes) - 3) :
           /\ DrawnNodes[b].level = "sub"
           /\ DrawnNodes[b + 1].level = "leaf"
           /\ DrawnNodes[b + 2].level = "sub"
    /\ \E b \in 1..(Len(DrawnNodes) - 1) :
           DrawnNodes[b].level = "leaf" /\ DrawnNodes[b + 1].level = "main"
    /\ \E n \in Boxes : Len(TextLines(n)) = 2

============================================================================
